---- MODULE Spec2Model ----
(***************************************************************************)
(* Quote service (src/server.py) and quote client (src/client.py).         *)
(*                                                                         *)
(* Text is a sequence of pieces.  A symbol is a sequence of one-character  *)
(* strings; a literal part of a message is one multi-character piece, so   *)
(* "message mentions symbol" is a contiguous-subsequence test.             *)
(* An optional value (Python None or a value) is <<>> or <<v>>.            *)
(***************************************************************************)
EXTENDS Integers, Sequences, FiniteSets, TLC

\* ------------------------------------------------------------------ bounds
MaxSymLen == 4      \* longest symbol submitted to POST /stock
MaxSymbols == 2     \* longest symbol list given to watch
MaxCycles == 2      \* watch cycles explored
MaxTick == 0        \* longest overrun of one inter-cycle sleep, in seconds
MaxCents == 120     \* dense range of amounts (in cents) that are formatted

VARIABLES
    \* quote service, one HTTP exchange
    endpoint,       \* route of the exchange: "none", "root", "health", "stock"
    srvPc,          \* "idle", "handling", "responded"
    srvRequest,     \* StockRequest.symbol as submitted
    srvCond,        \* what is wrong with the provider lookup, "ok" if nothing
    srvQueried,     \* argument of yf.Ticker, <<"-">> when the provider was not called
    srvStatus,      \* HTTP status of the response
    srvBody,        \* JSON body of the response
    srvLog,         \* logger.error lines of the exchange
    \* quote client
    mode,           \* "watch" or "analyze"
    symbols,        \* watch: the symbols argument; analyze: the one symbol
    output,         \* watch: an export path was given
    pc,             \* position of the coroutine
    exc,            \* exception being propagated, "none" if none
    cycle,          \* watch cycles started
    now,            \* wall clock
    session,        \* StockClient.session: "none", "open", "closed"
    opened,         \* ClientSession objects created
    closed,         \* ClientSession objects closed
    tasks,          \* per symbol: "none", "scheduled", "running", "done", "failed"
    results,        \* per symbol: what its task returned
    order,          \* task indices in completion order
    stock_data,     \* what gather returned
    table,          \* rows on the screen
    renderedCycle,  \* cycle whose table is on the screen, 0 if none
    df_list,        \* the accumulator of per-cycle frames
    csv,            \* rows of the export file
    exportedCycle,  \* cycle written last to the export file, 0 if none
    console,        \* notices printed: subset of {"stop", "error"}
    interrupted,    \* the operator's interrupt was delivered
    cancelPending,  \* the main task was cancelled and has not reached an await
    outcome,        \* "running", "returned", "escaped"
    \* formatting
    fvalue,         \* optional amount handed to the formatter
    fcell,          \* format_currency(fvalue)
    fvolume         \* the volume cell for fvalue

srvVars == <<endpoint, srvPc, srvRequest, srvCond, srvQueried, srvStatus, srvBody, srvLog>>
cliVars == <<mode, symbols, output, pc, exc, cycle, now, session, opened, closed,
             tasks, results, order, stock_data, table, renderedCycle, df_list, csv,
             exportedCycle, console, interrupted, cancelPending, outcome>>
fmtVars == <<fvalue, fcell, fvolume>>
vars == <<srvVars, cliVars, fmtVars>>

\* ------------------------------------------------------------ text helpers
None == <<>>
Some(v) == <<v>>
IsNone(o) == o = <<>>

EndsWith(s, suf) ==
    /\ Len(s) >= Len(suf)
    /\ SubSeq(s, Len(s) - Len(suf) + 1, Len(s)) = suf

Mentions(text, s) ==
    \E i \in 1..(Len(text) - Len(s) + 1) : SubSeq(text, i, i + Len(s) - 1) = s

\* ------------------------------------------------------------- formatting
\* Amounts are whole cents; a count (volume) is a whole number.
DigitChars == <<"0", "1", "2", "3", "4", "5", "6", "7", "8", "9">>
IsDigit(c) == \E d \in 1..10 : DigitChars[d] = c

RECURSIVE Digits(_)
Digits(n) == IF n < 10 THEN <<DigitChars[n + 1]>>
             ELSE Digits(n \div 10) \o <<DigitChars[(n % 10) + 1]>>

\* The "," option of the format language: a comma before every group of three.
RECURSIVE Grouped(_)
Grouped(ds) == IF Len(ds) <= 3 THEN ds
               ELSE Grouped(SubSeq(ds, 1, Len(ds) - 3)) \o <<",">>
                    \o SubSeq(ds, Len(ds) - 2, Len(ds))

Abs(n) == IF n < 0 THEN -n ELSE n
Sign(n) == IF n < 0 THEN <<"-">> ELSE <<>>

\* f"{cents/100:,.2f}"
FixedTwo(cents) ==
    Sign(cents) \o Grouped(Digits(Abs(cents) \div 100)) \o <<".">>
    \o <<DigitChars[((Abs(cents) % 100) \div 10) + 1], DigitChars[(Abs(cents) % 10) + 1]>>

\* f"{n:,}"
GroupedInt(n) == Sign(n) \o Grouped(Digits(Abs(n)))

NA == <<"N/A">>

\* Python truth of an optional number: None and 0 are false.
Truthy(o) == ~IsNone(o) /\ o[1] # 0

format_currency(value) ==
    IF Truthy(value) THEN <<"$">> \o FixedTwo(value[1]) ELSE NA

\* The volume cell of create_stock_table.
VolumeCell(volume) ==
    IF Truthy(volume) THEN GroupedInt(volume[1]) ELSE NA

\* ----------------------------------------------------------- quote service
Suffix == <<".", "T", "O">>
Chars == {"S", ".", "T", "O"}
Symbols == UNION {[1..n -> Chars] : n \in 0..MaxSymLen}
NotQueried == <<"-">>

InfoKeys == {"currentPrice", "volume", "marketCap", "fiftyDayAverage", "longName", "currency"}
\* What the provider reports for a key when it reports the key at all.
InfoValue(k) ==
    CASE k = "currentPrice" -> Some(11000)
      [] k = "volume" -> Some(1234567)
      [] k = "marketCap" -> Some(0)
      [] k = "fiftyDayAverage" -> Some(10000)
      [] k = "longName" -> Some("Shopify Inc.")
      [] k = "currency" -> Some("USD")
\* An info dict: the keys it lacks map to None here (info.get(k) is None for them).
InfoWith(keys) == [k \in InfoKeys |-> IF k \in keys THEN InfoValue(k) ELSE None]
Infos == {InfoWith(keys) : keys \in SUBSET InfoKeys}
EmptyInfo == InfoWith({})

ProviderConds == {"ok", "unreachable", "unknown", "malformed"}
\* yf.Ticker(symbol).info: raises, or yields something that is no dict, or a dict.
\* For a symbol it does not know the provider library either raises or hands
\* back a dict without any of the quote keys.
ProviderOutcomes(cond, symbol) ==
    CASE cond = "ok" -> {[kind |-> "info", info |-> i] : i \in Infos}
      [] cond = "unreachable" ->
            {[kind |-> "raise", msg |-> <<"Connection refused">>]}
      [] cond = "unknown" ->
            {[kind |-> "raise", msg |-> <<"No data found for ">> \o symbol],
             [kind |-> "info", info |-> EmptyInfo]}
      [] cond = "malformed" ->
            {[kind |-> "raise", msg |-> <<"Expecting value: line 1 column 1 (char 0)">>],
             [kind |-> "notdict"]}

\* Variant: the suffix is appended without looking at the symbol.
NormalizeSymbolAlways(symbol) == symbol \o Suffix

NormalizeSymbol(symbol) ==
    IF ~EndsWith(symbol, Suffix) THEN symbol \o Suffix ELSE symbol

\* The dict get_stock_data builds from info.
QuoteOf(info) ==
    [current_price |-> info["currentPrice"],
     volume |-> info["volume"],
     market_cap |-> info["marketCap"],
     fifty_day_average |-> info["fiftyDayAverage"],
     name |-> info["longName"],
     currency |-> IF IsNone(info["currency"]) THEN Some("CAD") ELSE info["currency"]]

\* str(e) of the exception the lookup ends in.
CauseOf(out) ==
    IF out.kind = "raise" THEN out.msg
    ELSE <<"'NoneType' object has no attribute 'get'">>

get_stock_data(symbol, out) ==
    LET sym == NormalizeSymbol(symbol) IN
    IF out.kind = "info"
    THEN [ok |-> TRUE, queried |-> sym, data |-> QuoteOf(out.info), log |-> <<>>]
    ELSE [ok |-> FALSE, queried |-> sym, status |-> 500,
          detail |-> <<"Error fetching stock data: ">> \o CauseOf(out),
          log |-> << <<"Error fetching data for ">> \o sym \o <<": ">> \o CauseOf(out) >>]

\* str() of an HTTPException: "<status>: <detail>".
StrHTTPException(status, detail) ==
    (IF status = 500 THEN <<"500: ">> ELSE <<"?: ">>) \o detail

\* POST /stock: status, body and log lines for a request and a provider outcome.
get_stock_info(symbol, out) ==
    LET r == get_stock_data(symbol, out) IN
    IF r.ok
    THEN [status |-> 200, queried |-> r.queried,
          body |-> [symbol |-> symbol, data |-> r.data], log |-> r.log]
    ELSE [status |-> 500, queried |-> r.queried,
          body |-> [detail |-> StrHTTPException(r.status, r.detail)],
          log |-> r.log \o << <<"Error processing request for ">> \o symbol \o <<": ">>
                               \o StrHTTPException(r.status, r.detail) >>]

\* A request for POST /stock arrives.
ReceiveStock ==
    /\ endpoint = "none"
    /\ \E symbol \in Symbols :
        /\ endpoint' = "stock"
        /\ srvRequest' = symbol
    /\ srvPc' = "handling"
    /\ UNCHANGED <<srvCond, srvQueried, srvStatus, srvBody, srvLog, cliVars, fmtVars>>

\* The handler of POST /stock runs: one provider lookup, one response.
PostStock ==
    /\ endpoint = "stock"
    /\ srvPc = "handling"
    /\ \E cond \in ProviderConds :
        \E out \in ProviderOutcomes(cond, NormalizeSymbol(srvRequest)) :
          LET r == get_stock_info(srvRequest, out) IN
          /\ srvCond' = cond
          /\ srvQueried' = r.queried
          /\ srvStatus' = r.status
          /\ srvBody' = r.body
          /\ srvLog' = r.log
    /\ srvPc' = "responded"
    /\ UNCHANGED <<endpoint, srvRequest, cliVars, fmtVars>>

root ==
    /\ endpoint = "none"
    /\ endpoint' = "root"
    /\ srvPc' = "responded"
    /\ srvStatus' = 200
    /\ srvBody' = [status |-> "online", message |-> "Stock Market API is running"]
    /\ UNCHANGED <<srvRequest, srvCond, srvQueried, srvLog, cliVars, fmtVars>>

health_check ==
    /\ endpoint = "none"
    /\ endpoint' = "health"
    /\ srvPc' = "responded"
    /\ srvStatus' = 200
    /\ srvBody' = [status |-> "healthy"]
    /\ UNCHANGED <<srvRequest, srvCond, srvQueried, srvLog, cliVars, fmtVars>>

SrvInit ==
    /\ endpoint = "none"
    /\ srvPc = "idle"
    /\ srvRequest = <<>>
    /\ srvCond = "ok"
    /\ srvQueried = NotQueried
    /\ srvStatus = 0
    /\ srvBody = [status |-> "none"]
    /\ srvLog = <<>>

\* The exchange is over; the service keeps nothing of it.
ExchangeDone ==
    /\ srvPc = "responded"
    /\ endpoint' = "none"
    /\ srvPc' = "idle"
    /\ srvRequest' = <<>>
    /\ srvCond' = "ok"
    /\ srvQueried' = NotQueried
    /\ srvStatus' = 0
    /\ srvBody' = [status |-> "none"]
    /\ srvLog' = <<>>
    /\ UNCHANGED <<cliVars, fmtVars>>

CliIdle ==
    /\ mode = "watch"
    /\ symbols = <<>>
    /\ output = FALSE
    /\ pc = "done"
    /\ exc = "none"
    /\ cycle = 0
    /\ now = 0
    /\ session = "none"
    /\ opened = 0
    /\ closed = 0
    /\ tasks = <<>>
    /\ results = <<>>
    /\ order = <<>>
    /\ stock_data = <<>>
    /\ table = <<>>
    /\ renderedCycle = 0
    /\ df_list = <<>>
    /\ csv = <<>>
    /\ exportedCycle = 0
    /\ console = {}
    /\ interrupted = FALSE
    /\ cancelPending = FALSE
    /\ outcome = "returned"

FmtIdle ==
    /\ fvalue = None
    /\ fcell = <<>>
    /\ fvolume = <<>>

\* ------------------------------------------------------------ quote client
Tickers == {<<"X">>, <<"Y">>}
SymbolLists == UNION {[1..n -> Tickers] : n \in 1..MaxSymbols}
NoResult == [pending |-> TRUE]

\* What the service's provider does during a watch or analyze run.
ClientProviderOutcomes ==
    {[kind |-> "info", info |-> InfoWith(InfoKeys \ {"volume"})],
     [kind |-> "raise", msg |-> <<"Connection refused">>]}

\* StockClient.get_stock_info: the JSON body of the response, whatever its
\* status, or an exception of the transport.
RequestOutcomes(symbol) ==
    {[kind |-> "json", body |-> get_stock_info(symbol, out).body] :
        out \in ClientProviderOutcomes}
    \cup {[kind |-> "exception"]}

RECURSIVE Flatten(_)
Flatten(frames) ==
    IF frames = <<>> THEN <<>>
    ELSE Flatten(SubSeq(frames, 1, Len(frames) - 1)) \o frames[Len(frames)]

HasKey(body, key) == key \in DOMAIN body

RowOf(stock) ==
    [symbol |-> stock.symbol,
     current_price |-> format_currency(stock.data.current_price),
     volume |-> VolumeCell(stock.data.volume),
     market_cap |-> format_currency(stock.data.market_cap),
     fifty_day_avg |-> format_currency(stock.data.fifty_day_average)]

\* Variant: entries without the key are left out of the table.
create_stock_table_skipping(data) ==
    LET kept == SelectSeq(data, LAMBDA d : HasKey(d, "symbol") /\ HasKey(d, "data")) IN
    [ok |-> TRUE, rows |-> [i \in 1..Len(kept) |-> RowOf(kept[i])]]

\* The rows of the table, or the KeyError of the first entry without the key.
create_stock_table(data) ==
    IF \A i \in 1..Len(data) : HasKey(data[i], "symbol") /\ HasKey(data[i], "data")
    THEN [ok |-> TRUE, rows |-> [i \in 1..Len(data) |-> RowOf(data[i])]]
    ELSE [ok |-> FALSE, rows |-> <<>>]

\* The frame of one cycle: one row per entry, all with the cycle's timestamp.
FrameOf(data, timestamp) ==
    IF \A i \in 1..Len(data) : HasKey(data[i], "symbol") /\ HasKey(data[i], "data")
    THEN [ok |-> TRUE,
          rows |-> [i \in 1..Len(data) |->
                      [timestamp |-> timestamp,
                       symbol |-> data[i].symbol,
                       price |-> data[i].data.current_price,
                       volume |-> data[i].data.volume,
                       market_cap |-> data[i].data.market_cap,
                       fifty_day_avg |-> data[i].data.fifty_day_average]]]
    ELSE [ok |-> FALSE, rows |-> <<>>]

\* Variant: only the frame of the current cycle is written.
ExportCsvLastFrame(frames) == frames[Len(frames)]

\* pd.concat(df_list).to_csv(output): the file is the whole accumulator.
ExportCsv(frames) == Flatten(frames)

\* Variant: the results in the order in which the tasks completed.
GatherValueByCompletion(rs, ord) == [k \in 1..Len(ord) |-> rs[ord[k]]]

\* asyncio.gather(*tasks): the list of results, by position of the awaitable.
GatherValue(rs, ord) == rs

\* Variant: the await ends with the first result, holding what is there by then.
GatherOutcomeAny(ts, rs, ord) ==
    IF \E i \in DOMAIN ts : ts[i] = "failed" THEN [state |-> "raise", value |-> <<>>]
    ELSE IF \E i \in DOMAIN ts : ts[i] = "done"
         THEN LET idx == SelectSeq([i \in 1..Len(ts) |-> i], LAMBDA i : ts[i] = "done") IN
              [state |-> "return", value |-> [k \in 1..Len(idx) |-> rs[idx[k]]]]
         ELSE [state |-> "pending", value |-> <<>>]

\* asyncio.gather without return_exceptions: raises as soon as one awaitable
\* has raised, returns once every awaitable has returned.
GatherOutcome(ts, rs, ord) ==
    IF \E i \in DOMAIN ts : ts[i] = "failed" THEN [state |-> "raise", value |-> <<>>]
    ELSE IF \A i \in DOMAIN ts : ts[i] = "done"
         THEN [state |-> "return", value |-> GatherValue(rs, ord)]
         ELSE [state |-> "pending", value |-> <<>>]

\* The event loop runs every scheduled task up to its first suspension before
\* it polls for I/O: no response is read while a task has yet to post.
CanStart(ts, i) == ts[i] = "scheduled" /\ \A j \in 1..(i - 1) : ts[j] # "scheduled"
CanComplete(ts, i) == ts[i] = "running" /\ \A j \in DOMAIN ts : ts[j] # "scheduled"

\* Variant: the session is closed only when the block ends without exception.
SessionAfterExitOnSuccess(s, e) == IF s # "none" /\ e = "none" THEN "closed" ELSE s

\* StockClient.__aexit__: the session after leaving the async with block.
SessionAfterExit(s, e) == IF s # "none" THEN "closed" ELSE s

\* --interval, in seconds (its default).
Interval == 60

N == Len(symbols)
Suspended == pc \in {"gather", "sleep"}
InsideWith == pc \in {"fanout", "gather", "render", "export"}

\* while True: async with StockClient() as client
EnterClient ==
    /\ mode = "watch" /\ pc = "loop"
    /\ cycle < MaxCycles
    /\ cycle' = cycle + 1
    /\ session' = "open"
    /\ opened' = opened + 1
    /\ tasks' = [i \in 1..N |-> "none"]
    /\ results' = [i \in 1..N |-> NoResult]
    /\ order' = <<>>
    /\ stock_data' = <<>>
    /\ pc' = "fanout"
    /\ UNCHANGED <<mode, symbols, output, exc, now, closed, table, renderedCycle,
                   df_list, csv, exportedCycle, console, interrupted, cancelPending,
                   outcome, srvVars, fmtVars>>

\* get_multiple_stocks: one task per symbol, then await gather.  A task that
\* was cancelled before gets the CancelledError at this await.
Fanout ==
    /\ mode = "watch" /\ pc = "fanout"
    /\ IF cancelPending
       THEN /\ exc' = "CancelledError"
            /\ cancelPending' = FALSE
            /\ pc' = "aexit"
            /\ UNCHANGED tasks
       ELSE /\ tasks' = [i \in 1..N |-> "scheduled"]
            /\ pc' = "gather"
            /\ UNCHANGED <<exc, cancelPending>>
    /\ UNCHANGED <<mode, symbols, output, cycle, now, session, opened, closed, results,
                   order, stock_data, table, renderedCycle, df_list, csv, exportedCycle,
                   console, interrupted, outcome, srvVars, fmtVars>>

\* A task runs to session.post: its request is on the wire.
StartTask(i) ==
    /\ mode = "watch" /\ pc = "gather"
    /\ CanStart(tasks, i)
    /\ tasks' = [tasks EXCEPT ![i] = "running"]
    /\ UNCHANGED <<mode, symbols, output, pc, exc, cycle, now, session, opened, closed,
                   results, order, stock_data, table, renderedCycle, df_list, csv,
                   exportedCycle, console, interrupted, cancelPending, outcome,
                   srvVars, fmtVars>>

\* A task reads its response, or its request fails in the transport.
CompleteTask(i) ==
    /\ mode = "watch" /\ pc = "gather"
    /\ CanComplete(tasks, i)
    /\ \E o \in RequestOutcomes(symbols[i]) :
        IF o.kind = "json"
        THEN /\ tasks' = [tasks EXCEPT ![i] = "done"]
             /\ results' = [results EXCEPT ![i] = o.body]
        ELSE /\ tasks' = [tasks EXCEPT ![i] = "failed"]
             /\ UNCHANGED results
    /\ order' = Append(order, i)
    /\ UNCHANGED <<mode, symbols, output, pc, exc, cycle, now, session, opened, closed,
                   stock_data, table, renderedCycle, df_list, csv, exportedCycle,
                   console, interrupted, cancelPending, outcome, srvVars, fmtVars>>

\* The await of gather ends: with the list, or with the first exception.
GatherResume ==
    /\ mode = "watch" /\ pc = "gather"
    /\ LET g == GatherOutcome(tasks, results, order) IN
        /\ g.state # "pending"
        /\ IF g.state = "return"
           THEN /\ stock_data' = g.value
                /\ pc' = "render"
                /\ UNCHANGED exc
           ELSE /\ exc' = "Exception"
                /\ pc' = "aexit"
                /\ UNCHANGED stock_data
    /\ UNCHANGED <<mode, symbols, output, cycle, now, session, opened, closed, tasks,
                   results, order, table, renderedCycle, df_list, csv, exportedCycle,
                   console, interrupted, cancelPending, outcome, srvVars, fmtVars>>

\* console.clear(); console.print(create_stock_table(stock_data))
Render ==
    /\ mode = "watch" /\ pc = "render"
    /\ LET t == create_stock_table(stock_data) IN
        IF t.ok
        THEN /\ table' = t.rows
             /\ renderedCycle' = cycle
             /\ pc' = IF output THEN "export" ELSE "aexit"
             /\ UNCHANGED exc
        ELSE /\ table' = <<>>
             /\ renderedCycle' = 0
             /\ exc' = "Exception"
             /\ pc' = "aexit"
    /\ UNCHANGED <<mode, symbols, output, cycle, now, session, opened, closed, tasks,
                   results, order, stock_data, df_list, csv, exportedCycle, console,
                   interrupted, cancelPending, outcome, srvVars, fmtVars>>

\* if output: the cycle's frame joins df_list and the file is written anew.
Export ==
    /\ mode = "watch" /\ pc = "export"
    /\ LET f == FrameOf(stock_data, now) IN
        IF f.ok
        THEN /\ df_list' = Append(df_list, f.rows)
             /\ csv' = ExportCsv(Append(df_list, f.rows))
             /\ exportedCycle' = cycle
             /\ UNCHANGED exc
        ELSE /\ exc' = "Exception"
             /\ UNCHANGED <<df_list, csv, exportedCycle>>
    /\ pc' = "aexit"
    /\ UNCHANGED <<mode, symbols, output, cycle, now, session, opened, closed, tasks,
                   results, order, stock_data, table, renderedCycle, console,
                   interrupted, cancelPending, outcome, srvVars, fmtVars>>

\* Leaving the async with block, normally or with an exception on its way out.
Aexit ==
    /\ pc = "aexit"
    /\ session' = SessionAfterExit(session, exc)
    /\ closed' = IF session = "open" /\ session' = "closed" THEN closed + 1 ELSE closed
    /\ IF mode = "analyze"
       THEN /\ pc' = "done"
            /\ outcome' = "returned"
       ELSE /\ pc' = IF exc = "none" THEN "sleep" ELSE "except"
            /\ UNCHANGED outcome
    /\ UNCHANGED <<mode, symbols, output, exc, cycle, now, opened, tasks, results, order,
                   stock_data, table, renderedCycle, df_list, csv, exportedCycle,
                   console, interrupted, cancelPending, srvVars, fmtVars>>

\* await asyncio.sleep(interval): the clock has moved on when it returns.  A
\* task that was cancelled before gets the CancelledError at this await.
Sleep ==
    /\ mode = "watch" /\ pc = "sleep"
    /\ IF cancelPending
       THEN /\ exc' = "CancelledError"
            /\ cancelPending' = FALSE
            /\ pc' = "except"
            /\ UNCHANGED now
       ELSE /\ \E d \in 0..MaxTick : now' = now + Interval + d
            /\ pc' = "loop"
            /\ UNCHANGED <<exc, cancelPending>>
    /\ UNCHANGED <<mode, symbols, output, cycle, session, opened, closed, tasks, results,
                   order, stock_data, table, renderedCycle, df_list, csv, exportedCycle,
                   console, interrupted, outcome, srvVars, fmtVars>>

\* The except clauses of watch_stocks.  CancelledError is a BaseException and
\* no KeyboardInterrupt: neither clause takes it, it leaves the coroutine and
\* asyncio.run raises out of the command.
Except ==
    /\ mode = "watch" /\ pc = "except"
    /\ CASE exc = "KeyboardInterrupt" ->
              /\ console' = console \cup {"stop"}
              /\ outcome' = "returned"
         [] exc = "Exception" ->
              /\ console' = console \cup {"error"}
              /\ outcome' = "returned"
         [] OTHER ->
              /\ outcome' = "escaped"
              /\ UNCHANGED console
    /\ pc' = "done"
    /\ UNCHANGED <<mode, symbols, output, exc, cycle, now, session, opened, closed, tasks,
                   results, order, stock_data, table, renderedCycle, df_list, csv,
                   exportedCycle, interrupted, cancelPending, srvVars, fmtVars>>

\* The operator's interrupt signal.  While the coroutine is suspended at an
\* await the event loop is what runs: the signal ends in the main task being
\* cancelled, and the coroutine sees CancelledError.  While the coroutine's own
\* code runs, the runtime either raises KeyboardInterrupt right there or
\* cancels the main task, which then fails at its next await.
Interrupt ==
    /\ mode = "watch" /\ ~interrupted /\ exc = "none"
    /\ pc \in {"loop", "fanout", "gather", "render", "export", "sleep"}
    /\ interrupted' = TRUE
    /\ IF Suspended
       THEN /\ exc' = "CancelledError"
            /\ pc' = IF InsideWith THEN "aexit" ELSE "except"
            /\ UNCHANGED cancelPending
       ELSE \/ /\ exc' = "KeyboardInterrupt"
               /\ pc' = IF InsideWith THEN "aexit" ELSE "except"
               /\ UNCHANGED cancelPending
            \/ /\ cancelPending' = TRUE
               /\ UNCHANGED <<exc, pc>>
    /\ UNCHANGED <<mode, symbols, output, cycle, now, session, opened, closed, tasks,
                   results, order, stock_data, table, renderedCycle, df_list, csv,
                   exportedCycle, console, outcome, srvVars, fmtVars>>

\* analyze: async with StockClient() as client
AnalyzeEnter ==
    /\ mode = "analyze" /\ pc = "a_enter"
    /\ session' = "open"
    /\ opened' = opened + 1
    /\ pc' = "a_request"
    /\ UNCHANGED <<mode, symbols, output, exc, cycle, now, closed, tasks, results, order,
                   stock_data, table, renderedCycle, df_list, csv, exportedCycle,
                   console, interrupted, cancelPending, outcome, srvVars, fmtVars>>

\* |current - average| / average * 100 to two decimals, in hundredths.
PercentHundredths(current, average) ==
    (2 * Abs(current - average) * 10000 + Abs(average)) \div (2 * Abs(average))

\* The rows of the analysis table.
AnalysisRows(data) ==
    (IF Truthy(data.current_price) /\ Truthy(data.fifty_day_average)
     THEN << [metric |-> "Price vs 50-day Average",
              trend |-> IF data.current_price[1] > data.fifty_day_average[1]
                        THEN "up" ELSE "down",
              value |-> FixedTwo(PercentHundredths(data.current_price[1],
                                                   data.fifty_day_average[1]))
                        \o <<"%">>] >>
     ELSE <<>>)
    \o << [metric |-> "Current Price", value |-> format_currency(data.current_price)],
          [metric |-> "50 Day Average", value |-> format_currency(data.fifty_day_average)],
          [metric |-> "Market Cap", value |-> format_currency(data.market_cap)] >>

\* analyze: the request, the table, and the except clause inside the block.
AnalyzeStock ==
    /\ mode = "analyze" /\ pc = "a_request"
    /\ \E o \in RequestOutcomes(symbols[1]) :
        IF o.kind = "json" /\ HasKey(o.body, "data")
        THEN /\ stock_data' = <<o.body>>
             /\ table' = AnalysisRows(o.body.data)
             /\ UNCHANGED console
        ELSE /\ console' = console \cup {"error"}
             /\ UNCHANGED <<stock_data, table>>
    /\ pc' = "aexit"
    /\ UNCHANGED <<mode, symbols, output, exc, cycle, now, session, opened, closed, tasks,
                   results, order, renderedCycle, df_list, csv, exportedCycle,
                   interrupted, cancelPending, outcome, srvVars, fmtVars>>

CliInit ==
    /\ mode \in {"watch", "analyze"}
    /\ symbols \in SymbolLists
    /\ mode = "analyze" => Len(symbols) = 1
    /\ output \in BOOLEAN
    /\ mode = "analyze" => output = FALSE
    /\ pc = IF mode = "watch" THEN "loop" ELSE "a_enter"
    /\ exc = "none"
    /\ cycle = 0
    /\ now = 0
    /\ session = "none"
    /\ opened = 0
    /\ closed = 0
    /\ tasks = <<>>
    /\ results = <<>>
    /\ order = <<>>
    /\ stock_data = <<>>
    /\ table = <<>>
    /\ renderedCycle = 0
    /\ df_list = <<>>
    /\ csv = <<>>
    /\ exportedCycle = 0
    /\ console = {}
    /\ interrupted = FALSE
    /\ cancelPending = FALSE
    /\ outcome = "running"

Init == SrvInit /\ CliInit /\ FmtIdle
Next ==
    \/ EnterClient
    \/ Fanout
    \/ \E i \in 1..N : StartTask(i)
    \/ \E i \in 1..N : CompleteTask(i)
    \/ GatherResume
    \/ Render
    \/ Export
    \/ Aexit
    \/ Sleep
    \/ Except
    \/ Interrupt
    \/ AnalyzeEnter
    \/ AnalyzeStock
Spec == Init /\ [][Next]_vars

\* A request of the current cycle failed: in the transport, or with an error
\* body (no "symbol" key) from the service.
HasFailure ==
    \E i \in DOMAIN tasks :
        \/ tasks[i] = "failed"
        \/ tasks[i] = "done" /\ ~HasKey(results[i], "symbol")
AllDone == \A i \in DOMAIN tasks : tasks[i] = "done"
Watching == mode = "watch" /\ cycle > 0

\* C4: when every request of a cycle succeeded, row i of the table drawn for
\* the cycle, and row i of the cycle's rows in the CSV file, is the row of
\* symbols[i], whatever the order in which the requests completed.
C4_RowsFollowInputOrder ==
    /\ (Watching /\ renderedCycle = cycle) =>
          /\ Len(table) = N
          /\ \A i \in 1..N : /\ table[i].symbol = symbols[i]
                             /\ table[i] = RowOf(results[i])
    /\ (Watching /\ exportedCycle = cycle) =>
          /\ Len(csv) >= N
          /\ \A i \in 1..N : /\ csv[Len(csv) - N + i].symbol = symbols[i]
                             /\ csv[Len(csv) - N + i].price = results[i].data.current_price

C4_Witness ==
    /\ Watching /\ renderedCycle = cycle /\ exportedCycle = cycle
    /\ symbols = << <<"X">>, <<"Y">> >>
    /\ order = <<2, 1>>
    /\ table[1].symbol = <<"X">> /\ table[2].symbol = <<"Y">>

\* C5: no response of a cycle is read before every request of the cycle has
\* been issued, and the cycle's table is on the screen, or its rows are in the
\* file, only when every request of the cycle has completed.
C5_JoinAllBeforeRender ==
    Watching =>
        /\ (\E i \in 1..N : tasks[i] \in {"done", "failed"}) =>
              \A j \in 1..N : tasks[j] \in {"running", "done", "failed"}
        /\ renderedCycle = cycle => AllDone
        /\ exportedCycle = cycle => AllDone
        /\ pc \in {"render", "export"} => AllDone

C5_Witness ==
    /\ Watching /\ N = 2 /\ cycle = 2
    /\ renderedCycle = cycle /\ exportedCycle = cycle
    /\ AllDone

C6_Shape ==
    (mode = "watch" /\ output /\ pc \in {"sleep", "loop"}) =>
        /\ exportedCycle = cycle
        /\ Len(df_list) = cycle
        /\ csv = Flatten(df_list)
        /\ Len(csv) = cycle * N
        /\ \A c \in 1..cycle : \A i \in 1..N :
              /\ csv[(c - 1) * N + i].symbol = symbols[i]
              /\ csv[(c - 1) * N + i].timestamp = csv[(c - 1) * N + 1].timestamp
        /\ \A c \in 2..cycle :
              csv[(c - 1) * N + 1].timestamp > csv[(c - 2) * N + 1].timestamp
C6_Step ==
    csv' # csv => /\ Len(csv') = Len(csv) + N
                  /\ SubSeq(csv', 1, Len(csv)) = csv

C7_NoRenderAfterFailure ==
    (mode = "watch" /\ HasFailure) =>
        /\ renderedCycle # cycle
        /\ exportedCycle # cycle
        /\ pc \in {"gather", "render", "aexit", "except", "done"}
        /\ (pc = "done" /\ ~interrupted) =>
              /\ "error" \in console
              /\ outcome = "returned"

\* C7: once a request of a watch cycle has failed (in the transport, or with an
\* error response), that cycle is neither drawn nor exported, no further cycle
\* is started, and the loop ends with the failure printed (unless the operator
\* interrupted it first).
C7_FailFast ==
    [](C7_NoRenderAfterFailure) /\ [][(mode = "watch" /\ HasFailure) => cycle' = cycle]_vars

C7_Witness ==
    /\ mode = "watch" /\ pc = "done" /\ ~interrupted
    /\ N = 2 /\ cycle = 2
    /\ tasks[1] = "done" /\ HasKey(results[1], "symbol")
    /\ tasks[2] = "done" /\ HasKey(results[2], "detail")
    /\ "error" \in console

\* C8: an interrupt delivered at any point of the watch loop ends the loop with
\* the stop notice printed and without an exception leaving the watch command.
C8_InterruptStopsGracefully ==
    (mode = "watch" /\ interrupted /\ pc = "done") =>
        /\ "stop" \in console
        /\ outcome = "returned"

\* C10 as stated: one session per invocation, however many cycles, and every
\* session opened is closed once the invocation has ended.
C10_OneSessionPerInvocation ==
    /\ opened <= 1
    /\ pc = "done" => closed = opened

\* C10 amended: a watch invocation opens one session per cycle, analyze one
\* per invocation; at most one session is open at a time; outside the
\* async with block, and so on every exit path, every session opened is closed.
C10_OneSessionPerCycle ==
    /\ mode = "watch" => opened = cycle
    /\ mode = "analyze" => opened = IF pc = "a_enter" THEN 0 ELSE 1
    /\ opened - closed \in {0, 1}
    /\ session = "open" <=> opened - closed = 1
    /\ pc \in {"loop", "sleep", "except", "done"} => closed = opened

C10_Witness ==
    /\ mode = "watch" /\ pc = "done"
    /\ exc # "none"
    /\ opened = 2 /\ closed = 2

ServerInit == SrvInit /\ CliIdle /\ FmtIdle
ServerNext == ReceiveStock \/ PostStock \/ root \/ health_check \/ ExchangeDone
SpecServer == ServerInit /\ [][ServerNext]_vars

StockResponded == endpoint = "stock" /\ srvPc = "responded"

\* C1: when the lookup of a POST /stock request succeeds, the provider was
\* queried with the submitted symbol itself if that already ends in ".TO" and
\* with the symbol plus ".TO" otherwise, and the response's symbol field is
\* the submitted symbol.
C1_SuffixOnlyForLookup ==
    (StockResponded /\ srvStatus = 200) =>
        /\ EndsWith(srvRequest, Suffix) => srvQueried = srvRequest
        /\ ~EndsWith(srvRequest, Suffix) =>
              /\ Len(srvQueried) = Len(srvRequest) + 3
              /\ SubSeq(srvQueried, 1, Len(srvRequest)) = srvRequest
              /\ EndsWith(srvQueried, Suffix)
        /\ srvBody.symbol = srvRequest

C1_Witness ==
    /\ StockResponded /\ srvStatus = 200
    /\ srvRequest = <<"S", ".", "T", "O">>
    /\ srvQueried = <<"S", ".", "T", "O">>
    /\ srvBody.symbol = srvRequest

\* C2: every POST /stock request whose provider lookup failed (provider
\* unreachable, symbol unknown, response malformed) is answered with status
\* 500, never with a 200 response.
C2_LookupFailureIs500 ==
    (StockResponded /\ srvCond # "ok") => srvStatus = 500

\* C3: the detail of every 500 response to POST /stock mentions the symbol
\* the provider was queried with, in its suffixed form.
C3_DetailMentionsSymbol ==
    (StockResponded /\ srvStatus = 500) => Mentions(srvBody.detail, srvQueried)

\* ------------------------------------------------------- formatter inputs
FormatInputs ==
    {None} \cup {Some(c) : c \in (0..MaxCents) \cup {99999, 100000, 123456789}}

ApplyFormatCurrency ==
    /\ fcell = <<>>
    /\ fcell' = format_currency(fvalue)
    /\ UNCHANGED <<fvalue, fvolume, srvVars, cliVars>>

ApplyVolumeCell ==
    /\ fvolume = <<>>
    /\ fvolume' = VolumeCell(fvalue)
    /\ UNCHANGED <<fvalue, fcell, srvVars, cliVars>>

FormatInit ==
    /\ SrvInit /\ CliIdle
    /\ fvalue \in FormatInputs
    /\ fcell = <<>>
    /\ fvolume = <<>>
FormatNext == ApplyFormatCurrency \/ ApplyVolumeCell
SpecFormat == FormatInit /\ [][FormatNext]_vars

\* "$", then digits in comma-separated groups of three, then "." and two digits.
IsGroupedDigits(t) ==
    /\ Len(t) >= 1
    /\ \A i \in 1..Len(t) :
          IF (Len(t) - i) % 4 = 3 THEN t[i] = "," ELSE IsDigit(t[i])
    /\ t[1] # ","
IsCurrencyText(t) ==
    /\ Len(t) >= 5
    /\ t[1] = "$"
    /\ IsGroupedDigits(SubSeq(t, 2, Len(t) - 3))
    /\ t[Len(t) - 2] = "."
    /\ IsDigit(t[Len(t) - 1]) /\ IsDigit(t[Len(t)])

\* C9: an absent field renders as "N/A"; every present amount, zero included,
\* renders as "$" with thousands groups and two decimals, never as "N/A"; a
\* present volume renders as a thousands-grouped integer.
C9_PresentValuesAreFormatted ==
    /\ fcell # <<>> =>
          IF IsNone(fvalue) THEN fcell = NA ELSE IsCurrencyText(fcell)
    /\ fvolume # <<>> =>
          IF IsNone(fvalue) THEN fvolume = NA ELSE IsGroupedDigits(fvolume)
====
